---- MODULE Spec2Model ----
(***************************************************************************)
(* Participant read/update service of the video-call backend               *)
(* (backend/main.py, backend/models.py, backend/database.py).              *)
(*                                                                         *)
(* The relational table is a function from primary keys to rows.  Each     *)
(* HTTP request runs in its own SQLAlchemy session (get_db); a read        *)
(* request is one SELECT, an update request is SELECT, attribute           *)
(* assignment, UPDATE+COMMIT, SELECT (refresh), and requests of different  *)
(* sessions interleave between those statements.                           *)
(*                                                                         *)
(* Strings are sequences of one-character strings.  The alphabet leaves    *)
(* out the backslash, the default ESCAPE character of LIKE.                *)
(***************************************************************************)
EXTENDS Integers, Sequences, FiniteSets, TLC

VARIABLES table, clock, req, walk, wire, columns, mig

vars == <<table, clock, req, walk, wire, columns, mig>>

(***************************************************************************)
(* Bounds                                                                  *)
(***************************************************************************)
MaxId == 3
MaxSearchLen == 2
MaxLimit == 2
MaxOffset == 2
MaxRows == 2
MaxMigrateRows == 16
MaxRuns == 2
MaxClock == 2

(***************************************************************************)
(* Strings and SQL pattern matching                                        *)
(***************************************************************************)
Chars == {"a", "A", "b", "%", "_"}

RECURSIVE StringsOfLen(_)
StringsOfLen(n) ==
    IF n = 0 THEN {<<>>}
    ELSE {<<c>> \o t : c \in Chars, t \in StringsOfLen(n - 1)}

Searches == UNION {StringsOfLen(n) : n \in 0..MaxSearchLen}

Names == {<<"A", "b">>, <<"b", "a">>, <<"b">>, <<"a", "_">>}

LowerChar(c) == IF c = "A" THEN "a" ELSE c

LowerStr(s) == [i \in 1..Len(s) |-> LowerChar(s[i])]

\* SQL LIKE: '%' matches any run of characters, '_' any one character.
RECURSIVE Like(_, _)
Like(s, pattern) ==
    IF pattern = <<>> THEN s = <<>>
    ELSE IF Head(pattern) = "%"
         THEN Like(s, Tail(pattern)) \/ (s # <<>> /\ Like(Tail(s), pattern))
         ELSE /\ s # <<>>
              /\ (Head(pattern) = "_" \/ Head(pattern) = Head(s))
              /\ Like(Tail(s), Tail(pattern))

\* Column.ilike(pattern): lower(column) LIKE lower(pattern).
ILike(s, pattern) == Like(LowerStr(s), LowerStr(pattern))

\* A column that holds no value (None, SQL NULL).
Null == <<"NULL">>

\* f"%{search}%"
SearchPattern(search) == <<"%">> \o search \o <<"%">>

(***************************************************************************)
(* Rows of the participants table                                          *)
(***************************************************************************)
Flags == {"mic_on", "camera_on", "online"}

Participant_MicOnByDefault(id, name, email, role, now) ==
    [id |-> id, name |-> name, role |-> role, email |-> email,
     about_me |-> <<>>, resume_url |-> <<>>,
     mic_on |-> TRUE, camera_on |-> FALSE, online |-> FALSE,
     created_at |-> now, updated_at |-> now]

\* Participant(...) with the column defaults of the declarative model.
Participant(id, name, email, role, now) ==
    [id |-> id, name |-> name, role |-> role, email |-> email,
     about_me |-> <<>>, resume_url |-> <<>>,
     mic_on |-> FALSE, camera_on |-> FALSE, online |-> FALSE,
     created_at |-> now, updated_at |-> now]

Ids == 1..MaxId

RECURSIVE Orders(_)
Orders(S) ==
    IF S = {} THEN {<<>>}
    ELSE UNION {{<<x>> \o sc : sc \in Orders(S \ {x})} : x \in S}

\* The rows in the order a sequential scan may deliver them: any order.
Scans(t) == Orders(DOMAIN t)

ScanRows(t, sc) == [i \in DOMAIN sc |-> t[sc[i]]]

(***************************************************************************)
(* Query building blocks                                                   *)
(***************************************************************************)
\* query.filter(Participant.name.ilike(f"%{search}%"))
FilterName(rows, search) ==
    SelectSeq(rows, LAMBDA r : /\ r.name # Null
                               /\ ILike(r.name, SearchPattern(search)))

RECURSIVE InsertById(_, _)
InsertById(r, sorted) ==
    IF sorted = <<>> THEN <<r>>
    ELSE IF r.id <= Head(sorted).id THEN <<r>> \o sorted
         ELSE <<Head(sorted)>> \o InsertById(r, Tail(sorted))

RECURSIVE SortById(_)
SortById(rows) ==
    IF rows = <<>> THEN <<>>
    ELSE InsertById(Head(rows), SortById(Tail(rows)))

OrderById_Unordered(rows) == rows

\* query.order_by(Participant.id)
OrderById(rows) == SortById(rows)

Min(a, b) == IF a < b THEN a ELSE b

Offset_Ignored(rows, n) == rows

\* query.offset(n)
Offset(rows, n) == SubSeq(rows, n + 1, Len(rows))

Limit_Inclusive(rows, n) == SubSeq(rows, 1, Min(n + 1, Len(rows)))

\* query.limit(n)
Limit(rows, n) == SubSeq(rows, 1, Min(n, Len(rows)))

\* if search: query = query.filter(...)
WhereSearch(rows, search) ==
    IF search # <<>> THEN FilterName(rows, search) ELSE rows

\* The SELECT of get_participants over one scan order.
ListQuery(rows, search, limit, offset) ==
    Limit(Offset(OrderById(WhereSearch(rows, search)), offset), limit)

CountQuery_Unfiltered(t, search) == Cardinality(DOMAIN t)

\* The SELECT count(participants.id) of get_participants_count.
CountQuery(t, search) ==
    Cardinality({id \in DOMAIN t :
        search # <<>> => /\ t[id].name # Null
                         /\ ILike(t[id].name, SearchPattern(search))})

First_Any(t, pid) ==
    IF DOMAIN t = {} THEN <<>> ELSE <<t[CHOOSE id \in DOMAIN t : TRUE]>>

\* db.query(Participant).filter(Participant.id == pid).first()
First(t, pid) == IF pid \in DOMAIN t THEN <<t[pid]>> ELSE <<>>

(***************************************************************************)
(* Requests                                                                *)
(*                                                                         *)
(* req[s] is the request running in session s.  obj is the ORM object the  *)
(* session holds (empty: none), loaded the attribute values it had when    *)
(* the session read it, modified the attributes assigned since then.       *)
(* raced and superseded are bookkeeping for the properties: the flags that  *)
(* updates of other sessions named when they committed to the same row     *)
(* after this session read it (raced, until this session's refresh) and    *)
(* after this session committed (superseded).                              *)
(***************************************************************************)
Sessions == {1, 2}

QuerySessions == {1}

UpdateOps == {"media", "microphone", "camera", "status"}

NoRequest ==
    [pc |-> "idle", open |-> FALSE, op |-> "none", id |-> 0,
     search |-> <<>>, limit |-> 0, offset |-> 0, payload |-> {},
     obj |-> <<>>, loaded |-> <<>>, modified |-> {}, raced |-> {},
     superseded |-> {},
     status |-> 0, detail |-> "", body |-> <<>>]

\* The flags a request body names.
Named(payload) == {pr[1] : pr \in payload}

PayloadValue(payload, f) == (CHOOSE pr \in payload : pr[1] = f)[2]

\* The columns add_timestamp_columns probes for.
TimestampColumns == {"created_at", "updated_at"}

\* add_timestamp_columns is not running and has not run.
NoMigration ==
    [pc |-> "idle", script |-> FALSE, existing |-> {}, rows |-> <<>>,
     cols |-> {}, participants |-> <<>>, i |-> 0, base_time |-> 0,
     outcome |-> "", runs |-> 0]

\* No HTTP request of the session is in flight.
NoWire == [method |-> "", op |-> "", id |-> 0, raw |-> <<>>]

\* raise HTTPException(status_code=404, detail="Participant not found")
NotFound(r) ==
    [r EXCEPT !.pc = "done", !.status = 404,
              !.detail = "Participant not found"]

\* What executing the SELECT of get_participants can yield.  limit and
\* offset reach the statement as received.  PostgreSQL rejects a negative
\* LIMIT or OFFSET and the error becomes a 500 response; SQLite reads a
\* negative LIMIT as no limit and a negative OFFSET as 0.
ListExecute(rows, search, limit, offset) ==
    IF limit >= 0 /\ offset >= 0
    THEN {[status |-> 200, body |-> ListQuery(rows, search, limit, offset)]}
    ELSE {[status |-> 500, body |-> <<>>],
          [status |-> 200,
           body |-> ListQuery(rows, search,
                              IF limit < 0 THEN Len(rows) ELSE limit,
                              IF offset < 0 THEN 0 ELSE offset)]}

\* GET /participants
get_participants(s, search, limit, offset) ==
    /\ req[s].pc = "idle"
    /\ ~walk.on
    /\ \E sc \in Scans(table) :
         \E out \in ListExecute(ScanRows(table, sc), search, limit, offset) :
            req' = [req EXCEPT ![s] =
                      [NoRequest EXCEPT !.pc = "done", !.open = TRUE,
                           !.op = "list", !.search = search,
                           !.limit = limit, !.offset = offset,
                           !.status = out.status, !.body = out.body]]
    /\ UNCHANGED <<table, clock, walk, wire, columns, mig>>

\* GET /participants/count
get_participants_count(s, search) ==
    /\ req[s].pc = "idle"
    /\ ~walk.on
    /\ req' = [req EXCEPT ![s] =
                 [NoRequest EXCEPT !.pc = "done", !.open = TRUE,
                      !.op = "count", !.search = search, !.status = 200,
                      !.body = <<CountQuery(table, search)>>]]
    /\ UNCHANGED <<table, clock, walk, wire, columns, mig>>

\* GET /participants/{participant_id}
get_participant(s, pid) ==
    /\ req[s].pc = "idle"
    /\ ~walk.on
    /\ LET participant == First(table, pid)
           r == [NoRequest EXCEPT !.open = TRUE, !.op = "get", !.id = pid]
       IN req' = [req EXCEPT ![s] =
                    IF participant = <<>>
                    THEN NotFound(r)
                    ELSE [r EXCEPT !.pc = "done", !.status = 200,
                                   !.body = participant]]
    /\ UNCHANGED <<table, clock, walk, wire, columns, mig>>

ClockLeft ==
    clock + Cardinality({t \in Sessions : req[t].pc = "loaded"}) < MaxClock

UpdateLookup_NoCheck(s, op, pid, payload) ==
    /\ req[s].pc = "idle"
    /\ ClockLeft
    /\ LET participant ==
               IF pid \in DOMAIN table THEN First(table, pid)
               ELSE <<Participant(pid, <<>>, <<>>, <<>>, clock)>>
           r == [NoRequest EXCEPT !.open = TRUE, !.op = op, !.id = pid,
                                  !.payload = payload]
       IN req' = [req EXCEPT ![s] =
                    [r EXCEPT !.pc = "loaded", !.obj = participant,
                              !.loaded = participant]]
    /\ UNCHANGED <<table, clock, walk, wire, columns, mig>>

UpdateLookup_Upsert(s, op, pid, payload) ==
    /\ req[s].pc = "idle"
    /\ ClockLeft
    /\ LET row == IF pid \in DOMAIN table THEN table[pid]
                  ELSE Participant(pid, <<>>, <<>>, <<>>, clock)
           r == [NoRequest EXCEPT !.open = TRUE, !.op = op, !.id = pid,
                                  !.payload = payload]
       IN /\ table' = [i \in DOMAIN table \cup {pid} |->
                         IF i = pid THEN row ELSE table[i]]
          /\ req' = [req EXCEPT ![s] =
                       [r EXCEPT !.pc = "loaded", !.obj = <<row>>,
                                 !.loaded = <<row>>]]
    /\ UNCHANGED <<clock, walk, wire, columns, mig>>

\* The head of the four update handlers: look the participant up and
\* answer 404 when there is none.
UpdateLookup(s, op, pid, payload) ==
    /\ req[s].pc = "idle"
    /\ First(table, pid) # <<>> => ClockLeft
    /\ LET participant == First(table, pid)
           r == [NoRequest EXCEPT !.open = TRUE, !.op = op, !.id = pid,
                                  !.payload = payload]
       IN req' = [req EXCEPT ![s] =
                    IF participant = <<>>
                    THEN NotFound(r)
                    ELSE [r EXCEPT !.pc = "loaded", !.obj = participant,
                                   !.loaded = participant]]
    /\ UNCHANGED <<table, clock, walk, wire, columns, mig>>

\* PATCH /participants/{participant_id}/media
update_media(s, pid, mic, cam) ==
    UpdateLookup(s, "media", pid, {<<"mic_on", mic>>, <<"camera_on", cam>>})

\* PATCH /participants/{participant_id}/microphone
update_microphone(s, pid, mic) ==
    UpdateLookup(s, "microphone", pid, {<<"mic_on", mic>>})

\* PATCH /participants/{participant_id}/camera
update_camera(s, pid, cam) ==
    UpdateLookup(s, "camera", pid, {<<"camera_on", cam>>})

\* PATCH /participants/{participant_id}/status
update_status(s, pid, online) ==
    UpdateLookup(s, "status", pid, {<<"online", online>>})

SetAttributes_Toggle(s) ==
    /\ req[s].pc = "loaded"
    /\ clock' = clock + 1
    /\ LET r == req[s]
           p == r.obj[1]
           q == [a \in DOMAIN p |->
                   IF a \in Named(r.payload) THEN ~p[a]
                   ELSE IF a = "updated_at" THEN clock'
                   ELSE p[a]]
       IN req' = [req EXCEPT ![s] =
                    [r EXCEPT !.pc = "assigned", !.obj = <<q>>,
                              !.modified = Named(r.payload)
                                             \cup {"updated_at"}]]
    /\ UNCHANGED <<table, walk, wire, columns, mig>>

SetAttributes_WaitsForReaders(s) ==
    /\ req[s].pc = "loaded"
    /\ \A t \in Sessions \ {s} :
          ~(req[t].pc \in {"loaded", "assigned"} /\ req[t].id = req[s].id)
    /\ clock' = clock + 1
    /\ LET r == req[s]
           p == r.obj[1]
           q == [a \in DOMAIN p |->
                   IF a \in Named(r.payload) THEN PayloadValue(r.payload, a)
                   ELSE IF a = "updated_at" THEN clock'
                   ELSE p[a]]
       IN req' = [req EXCEPT ![s] =
                    [r EXCEPT !.pc = "assigned", !.obj = <<q>>,
                              !.modified = Named(r.payload)
                                             \cup {"updated_at"}]]
    /\ UNCHANGED <<table, walk, wire, columns, mig>>

\* participant.<flag> = payload.<flag>; participant.updated_at = utcnow().
\* Successive readings of the clock are distinct and increasing; ClockLeft
\* keeps every reading an admitted update will make within MaxClock.
SetAttributes(s) ==
    /\ req[s].pc = "loaded"
    /\ clock' = clock + 1
    /\ LET r == req[s]
           p == r.obj[1]
           q == [a \in DOMAIN p |->
                   IF a \in Named(r.payload) THEN PayloadValue(r.payload, a)
                   ELSE IF a = "updated_at" THEN clock'
                   ELSE p[a]]
       IN req' = [req EXCEPT ![s] =
                    [r EXCEPT !.pc = "assigned", !.obj = <<q>>,
                              !.modified = Named(r.payload)
                                             \cup {"updated_at"}]]
    /\ UNCHANGED <<table, walk, wire, columns, mig>>

FlushColumns_All(r) == DOMAIN r.obj[1] \ {"id"}

FlushColumns_TimestampOnly(r) == {"updated_at"}

FlushColumns_EveryFlag(r) == r.modified \cup Flags

\* The columns of the UPDATE the unit of work emits: the assigned
\* attributes whose value differs from the value the session loaded.
FlushColumns(r) ==
    {a \in r.modified : r.obj[1][a] # r.loaded[1][a]}

db_commit_AllRows(s) ==
    /\ req[s].pc = "assigned"
    /\ LET r == req[s]
           cols == FlushColumns(r)
       IN /\ table' = [id \in DOMAIN table |->
                         [a \in DOMAIN table[id] |->
                            IF a \in cols THEN r.obj[1][a]
                            ELSE table[id][a]]]
          /\ req' = [t \in Sessions |->
                       IF t = s
                       THEN [r EXCEPT !.pc = "committed", !.obj = <<>>,
                                      !.loaded = <<>>, !.modified = {}]
                       ELSE IF req[t].op \in UpdateOps /\ req[t].id = r.id
                            THEN [req[t] EXCEPT
                                    !.raced =
                                        IF req[t].pc \in {"loaded", "assigned",
                                                          "committed"}
                                        THEN @ \cup Named(r.payload) ELSE @,
                                    !.superseded =
                                        IF /\ req[t].pc \in {"committed", "done"}
                                           /\ req[t].status # 404
                                        THEN @ \cup Named(r.payload) ELSE @]
                            ELSE req[t]]
    /\ UNCHANGED <<clock, walk, wire, columns, mig>>

\* db.commit(): UPDATE participants SET <columns> WHERE id = :id; COMMIT.
\* The commit expires the attributes the session holds.
db_commit(s) ==
    /\ req[s].pc = "assigned"
    /\ LET r == req[s]
           cols == FlushColumns(r)
       IN /\ table' = [table EXCEPT ![r.id] =
                         [a \in DOMAIN @ |->
                            IF a \in cols THEN r.obj[1][a] ELSE @[a]]]
          /\ req' = [t \in Sessions |->
                       IF t = s
                       THEN [r EXCEPT !.pc = "committed", !.obj = <<>>,
                                      !.loaded = <<>>, !.modified = {}]
                       ELSE IF req[t].op \in UpdateOps /\ req[t].id = r.id
                            THEN [req[t] EXCEPT
                                    !.raced =
                                        IF req[t].pc \in {"loaded", "assigned",
                                                          "committed"}
                                        THEN @ \cup Named(r.payload) ELSE @,
                                    !.superseded =
                                        IF /\ req[t].pc \in {"committed", "done"}
                                           /\ req[t].status # 404
                                        THEN @ \cup Named(r.payload) ELSE @]
                            ELSE req[t]]
    /\ UNCHANGED <<clock, walk, wire, columns, mig>>

Rollback_FirstColumnKept(t, r) ==
    LET kept == FlushColumns(r) \cap {"mic_on", "online"}
    IN [t EXCEPT ![r.id] =
          [a \in DOMAIN @ |-> IF a \in kept THEN r.obj[1][a] ELSE @[a]]]

\* The transaction of a session whose commit fails is rolled back: the one
\* UPDATE it carried is undone as a whole.
Rollback(t, r) == t

\* db.commit() raises: the database rejects the UPDATE or the COMMIT.  The
\* exception leaves the handler and becomes a 500 response.
db_commit_fail(s) ==
    /\ req[s].pc = "assigned"
    /\ table' = Rollback(table, req[s])
    /\ req' = [req EXCEPT ![s] =
                 [@ EXCEPT !.pc = "done", !.obj = <<>>, !.loaded = <<>>,
                           !.modified = {}, !.status = 500,
                           !.detail = "Internal Server Error"]]
    /\ UNCHANGED <<clock, walk, wire, columns, mig>>

\* The primary key the database assigns to an inserted row.
NextId(t) ==
    IF DOMAIN t = {} THEN 1
    ELSE (CHOOSE m \in DOMAIN t : \A id \in DOMAIN t : id <= m) + 1

InsertDefaults_Swapped(row, first, second) ==
    [row EXCEPT !.created_at = second, !.updated_at = first]

\* The INSERT evaluates default=datetime.utcnow once for created_at and
\* then once for updated_at.
InsertDefaults(row, first, second) ==
    [row EXCEPT !.created_at = first, !.updated_at = second]

\* p = Participant(**given); db.add(p); db.commit(), as the seeding script
\* and the tests create participants.  A column that is not given holds no
\* value, unless the model declares a default for it.  The second reading
\* of the clock is the first or later.
create_participant(s, name, email, role, flags) ==
    /\ req[s].pc = "idle"
    /\ ~walk.on
    /\ Cardinality(DOMAIN table) < MaxRows
    /\ NextId(table) <= MaxId
    /\ \E second \in {clock, clock + 1} :
         /\ second # clock => ClockLeft
         /\ clock' = second
         /\ LET id == NextId(table)
                p == Participant(id, name, email, role, clock)
                q == [a \in DOMAIN p |->
                        IF a \in Named(flags) THEN PayloadValue(flags, a)
                        ELSE p[a]]
                row == InsertDefaults(q, clock, second)
            IN /\ table' = [i \in DOMAIN table \cup {id} |->
                              IF i = id THEN row ELSE table[i]]
               /\ req' = [req EXCEPT ![s] =
                            [NoRequest EXCEPT !.pc = "committed",
                                 !.open = TRUE, !.op = "create", !.id = id,
                                 !.payload = flags]]
    /\ UNCHANGED <<walk, wire, columns, mig>>

\* db.refresh(participant); return participant
db_refresh(s) ==
    /\ req[s].pc = "committed"
    /\ LET r == req[s]
           participant == First(table, r.id)
       IN req' = [req EXCEPT ![s] =
                    [r EXCEPT !.pc = "done", !.obj = participant,
                              !.status = 200, !.body = participant]]
    /\ UNCHANGED <<table, clock, walk, wire, columns, mig>>

get_db_close_OnSuccessOnly(s) ==
    /\ req[s].pc = "done"
    /\ req[s].status = 200
    /\ req' = [req EXCEPT ![s] = NoRequest]
    /\ UNCHANGED <<table, clock, walk, wire, columns, mig>>

\* get_db: finally db.close(), after the response has been produced.
get_db_close(s) ==
    /\ req[s].pc = "done"
    /\ req' = [req EXCEPT ![s] = NoRequest]
    /\ UNCHANGED <<table, clock, walk, wire, columns, mig>>

(***************************************************************************)
(* A client that pages through a search result, as the pagination tests    *)
(* do: limit fixed, offset 0, limit, 2*limit, ...                          *)
(***************************************************************************)
NoWalk == [on |-> FALSE, search |-> <<>>, limit |-> 0, offset |-> 0,
           seen |-> <<>>]

WalkStart(search, limit) ==
    /\ ~walk.on
    /\ \A s \in Sessions : req[s].pc = "idle"
    /\ walk' = [NoWalk EXCEPT !.on = TRUE, !.search = search,
                              !.limit = limit]
    /\ UNCHANGED <<table, clock, req, wire, columns, mig>>

WalkFinished == walk.on /\ walk.offset > MaxId

WalkPage ==
    /\ walk.on
    /\ ~WalkFinished
    /\ \E sc \in Scans(table) :
         LET page == ListQuery(ScanRows(table, sc), walk.search,
                               walk.limit, walk.offset)
         IN walk' = [walk EXCEPT
                       !.seen = @ \o [i \in DOMAIN page |-> page[i].id],
                       !.offset = @ + walk.limit]
    /\ UNCHANGED <<table, clock, req, wire, columns, mig>>

WalkEnd ==
    /\ WalkFinished
    /\ walk' = NoWalk
    /\ UNCHANGED <<table, clock, req, wire, columns, mig>>

(***************************************************************************)
(* Specifications                                                          *)
(***************************************************************************)
Email == <<"b", "b">>
Role == <<"A", "A">>

\* Two seeded participants; MaxId names no row.
SeedTable ==
    [id \in {1, 2} |->
        Participant(id, IF id = 1 THEN <<"A", "b">> ELSE <<"b">>,
                    Email, Role, 0)]

Init ==
    /\ table = SeedTable
    /\ clock = 0
    /\ req = [s \in Sessions |-> NoRequest]
    /\ walk = NoWalk
    /\ wire = [s \in Sessions |-> NoWire]
    /\ columns = TimestampColumns
    /\ mig = NoMigration

Update(s) ==
    \E pid \in Ids, v \in BOOLEAN, w \in BOOLEAN :
        \/ update_media(s, pid, v, w)
        \/ update_microphone(s, pid, v)
        \/ update_camera(s, pid, v)
        \/ update_status(s, pid, v)

Next ==
    \E s \in Sessions :
        \/ Update(s)
        \/ SetAttributes(s)
        \/ db_commit(s)
        \/ db_commit_fail(s)
        \/ db_refresh(s)
        \/ get_db_close(s)
        \/ \E pid \in Ids : get_participant(s, pid)
        \/ get_participants(s, <<>>, MaxLimit, 0)

Spec == Init /\ [][Next]_vars

\* What a request does once its handler has been entered; each step waits
\* for nothing but the database's answer.
RequestStep(s) ==
    \/ SetAttributes(s)
    \/ db_commit(s)
    \/ db_commit_fail(s)
    \/ db_refresh(s)
    \/ get_db_close(s)

\* The requests of two clients, every exit path among them: updates that
\* return, updates of a missing id, commits the database rejects, and a
\* list whose statement the database rejects.
NextLive ==
    \E s \in Sessions :
        \/ \E pid \in Ids :
             \/ update_media(s, pid, TRUE, TRUE)
             \/ update_microphone(s, pid, TRUE)
             \/ update_camera(s, pid, FALSE)
             \/ update_status(s, pid, TRUE)
             \/ get_participant(s, pid)
        \/ \E limit \in {-1, MaxLimit} : get_participants(s, <<>>, limit, 0)
        \/ RequestStep(s)

\* A handler that has been entered keeps running: the server executes its
\* next step whenever the database has answered.
SpecLive ==
    /\ Init
    /\ [][NextLive]_vars
    /\ \A s \in Sessions : WF_vars(RequestStep(s))

\* Read-only workload over every table content.
Tables ==
    UNION {{[id \in D |-> Participant(id, nm[id], Email, Role, 0)] :
               nm \in [D -> Names]} : D \in SUBSET Ids}

InitQuery ==
    /\ table \in Tables
    /\ clock = 0
    /\ req = [s \in Sessions |-> NoRequest]
    /\ walk = NoWalk
    /\ wire = [s \in Sessions |-> NoWire]
    /\ columns = TimestampColumns
    /\ mig = NoMigration

NextQuery ==
    \/ \E s \in QuerySessions :
         \/ \E search \in Searches, limit \in -1..MaxLimit,
               offset \in -1..MaxOffset :
              get_participants(s, search, limit, offset)
         \/ \E search \in Searches : get_participants_count(s, search)
         \/ \E pid \in 0..MaxId + 1 : get_participant(s, pid)
         \/ get_db_close(s)
    \/ \E search \in Searches, limit \in 1..MaxLimit :
         WalkStart(search, limit)
    \/ WalkPage
    \/ WalkEnd

SpecQuery == InitQuery /\ [][NextQuery]_vars

\* Participants are created in an empty table and then updated.
InitCreate ==
    /\ table = <<>>
    /\ clock = 0
    /\ req = [s \in Sessions |-> NoRequest]
    /\ walk = NoWalk
    /\ wire = [s \in Sessions |-> NoWire]
    /\ columns = TimestampColumns
    /\ mig = NoMigration

\* What a creation is given: everything, or all but one of name, email, role.
Given ==
    {[name |-> <<"b">>, email |-> Email, role |-> Role],
     [name |-> Null, email |-> Email, role |-> Role],
     [name |-> <<"b">>, email |-> Null, role |-> Role],
     [name |-> <<"b">>, email |-> Email, role |-> Null]}

\* The script that creates participants, and the client that updates them.
ScriptSessions == {1}
ClientSessions == {2}

NextCreate ==
    \E s \in Sessions :
        \/ /\ s \in ScriptSessions
           /\ \E g \in Given, flags \in {{}, {<<"online", TRUE>>}} :
                create_participant(s, g.name, g.email, g.role, flags)
        \/ /\ s \in ClientSessions
           /\ \E pid \in Ids :
                \/ update_media(s, pid, TRUE, TRUE)
                \/ update_microphone(s, pid, TRUE)
                \/ update_camera(s, pid, TRUE)
                \/ update_status(s, pid, TRUE)
        \/ SetAttributes(s)
        \/ db_commit(s)
        \/ db_refresh(s)
        \/ get_db_close(s)

SpecCreate == InitCreate /\ [][NextCreate]_vars

(***************************************************************************)
(* The HTTP front of the update operations: routing by method and path,    *)
(* then validation of the JSON body against the payload class.             *)
(***************************************************************************)
Methods == {"PATCH", "PUT"}

\* @app.patch(...): the method each update path is registered under.
Routes == {<<"PATCH", op>> : op \in UpdateOps}

\* MediaUpdate, MicrophoneUpdate, CameraUpdate, StatusUpdate: the fields
\* of the payload class of an operation, all required.
Fields(op) ==
    CASE op = "media" -> {"mic_on", "camera_on"}
      [] op = "microphone" -> {"mic_on"}
      [] op = "camera" -> {"camera_on"}
      [] op = "status" -> {"online"}

\* JSON values a body can carry for a field, as they are written.
JsonValues == {"true", "false", "1", "\"yes\"", "\"invalid\"", "null"}

\* A field annotated bool: a JSON boolean is taken as it is, the numbers
\* 0 and 1 and the strings pydantic reads as booleans are converted, and
\* anything else is a validation error (no value).
ParseBool(v) ==
    IF v \in {"true", "1", "\"1\"", "\"true\"", "\"yes\"", "\"on\"",
              "\"t\"", "\"y\""} THEN {TRUE}
    ELSE IF v \in {"false", "0", "\"0\"", "\"false\"", "\"no\"", "\"off\"",
                   "\"f\"", "\"n\""} THEN {FALSE}
    ELSE {}

\* The bodies a client can send to an operation: each field of the
\* payload class is left out or carries one JSON value.
Bodies(op) ==
    UNION {[present -> JsonValues] : present \in SUBSET Fields(op)}

\* The body passes validation: every field is there and converts.
ValidBody(op, raw) ==
    /\ DOMAIN raw = Fields(op)
    /\ \A f \in Fields(op) : ParseBool(raw[f]) # {}

\* The payload object built from a body that passes validation.
ParsePayload(op, raw) ==
    {<<f, CHOOSE b \in ParseBool(raw[f]) : TRUE>> : f \in Fields(op)}

\* A client sends method /participants/{pid}/<op> with a JSON body.
http_request(s, method, op, pid, raw) ==
    /\ req[s].pc = "idle"
    /\ wire[s] = NoWire
    /\ ~walk.on
    /\ wire' = [wire EXCEPT ![s] =
                  [method |-> method, op |-> op, id |-> pid, raw |-> raw]]
    /\ UNCHANGED <<table, clock, req, walk, columns, mig>>

\* The application routes the request: 405 when the path is not
\* registered under the method, 422 when the body fails validation, and
\* otherwise the handler is called with the payload object.
app_dispatch(s) ==
    LET w == wire[s]
        p == ParsePayload(w.op, w.raw)
    IN /\ w # NoWire
       /\ req[s].pc = "idle"
       /\ \/ /\ <<w.method, w.op>> \notin Routes
             /\ req' = [req EXCEPT ![s] =
                          [NoRequest EXCEPT !.pc = "done", !.op = w.op,
                               !.id = w.id, !.status = 405,
                               !.detail = "Method Not Allowed"]]
             /\ UNCHANGED <<table, clock, walk, wire, columns, mig>>
          \/ /\ <<w.method, w.op>> \in Routes
             /\ ~ValidBody(w.op, w.raw)
             /\ req' = [req EXCEPT ![s] =
                          [NoRequest EXCEPT !.pc = "done", !.op = w.op,
                               !.id = w.id, !.status = 422,
                               !.detail = "Unprocessable Entity"]]
             /\ UNCHANGED <<table, clock, walk, wire, columns, mig>>
          \/ /\ <<w.method, w.op>> \in Routes
             /\ ValidBody(w.op, w.raw)
             /\ \/ /\ w.op = "media"
                   /\ update_media(s, w.id, PayloadValue(p, "mic_on"),
                                   PayloadValue(p, "camera_on"))
                \/ /\ w.op = "microphone"
                   /\ update_microphone(s, w.id, PayloadValue(p, "mic_on"))
                \/ /\ w.op = "camera"
                   /\ update_camera(s, w.id, PayloadValue(p, "camera_on"))
                \/ /\ w.op = "status"
                   /\ update_status(s, w.id, PayloadValue(p, "online"))

\* The response leaves: get_db closes the session and the exchange ends.
http_response(s) ==
    /\ req[s].pc = "done"
    /\ wire[s] # NoWire
    /\ req' = [req EXCEPT ![s] = NoRequest]
    /\ wire' = [wire EXCEPT ![s] = NoWire]
    /\ UNCHANGED <<table, clock, walk, columns, mig>>

\* One client at a time talks to the application over HTTP.
HttpSessions == {1}

NextHttp ==
    \E s \in HttpSessions :
        \/ \E method \in Methods, op \in UpdateOps, pid \in Ids :
             \E raw \in Bodies(op) : http_request(s, method, op, pid, raw)
        \/ app_dispatch(s)
        \/ SetAttributes(s)
        \/ db_commit(s)
        \/ db_refresh(s)
        \/ http_response(s)

SpecHttp == Init /\ [][NextHttp]_vars

(***************************************************************************)
(* add_timestamps.py.  Times are in minutes.  The script works in one      *)
(* transaction: its statements act on the transaction's view (mig.rows,    *)
(* mig.cols) and reach the table when it commits.                          *)
(***************************************************************************)
\* created_time = base_time - timedelta(days=30-i*2)
created_time(base_time, i) == base_time - (30 - i * 2) * 1440

\* updated_time = base_time - timedelta(minutes=i*10)
updated_time(base_time, i) == base_time - i * 10

NeedsBackfill_Always(existing) == TRUE

\* 'created_at' not in existing_columns or 'updated_at' not in
\* existing_columns
NeedsBackfill(existing) ==
    "created_at" \notin existing \/ "updated_at" \notin existing

\* ALTER TABLE participants ADD COLUMN <column> TIMESTAMP DEFAULT
\* CURRENT_TIMESTAMP: the rows there are get the current time.
AddColumn(rows, column, now) ==
    [id \in DOMAIN rows |-> [rows[id] EXCEPT ![column] = now]]

\* db = SessionLocal(); SELECT column_name FROM information_schema.columns.
\* script tells whether the file runs as a script, which binds timedelta,
\* or the function is called from an importing module, which does not.
add_timestamp_columns(script) ==
    /\ mig.pc = "idle"
    /\ mig.runs < MaxRuns
    /\ \A s \in Sessions : req[s].pc = "idle"
    /\ ~walk.on
    /\ mig' = [NoMigration EXCEPT !.pc = "probed", !.script = script,
                    !.existing = columns, !.rows = table, !.cols = columns,
                    !.runs = mig.runs + 1]
    /\ UNCHANGED <<table, clock, req, walk, wire, columns>>

\* if 'created_at' not in existing_columns: ALTER TABLE ...
add_created_at ==
    /\ mig.pc = "probed"
    /\ mig' = IF "created_at" \notin mig.existing
              THEN [mig EXCEPT !.pc = "created",
                        !.cols = @ \cup {"created_at"},
                        !.rows = AddColumn(@, "created_at", clock)]
              ELSE [mig EXCEPT !.pc = "created"]
    /\ UNCHANGED <<table, clock, req, walk, wire, columns>>

\* if 'updated_at' not in existing_columns: ALTER TABLE ...
add_updated_at ==
    /\ mig.pc = "created"
    /\ mig' = IF "updated_at" \notin mig.existing
              THEN [mig EXCEPT !.pc = "altered",
                        !.cols = @ \cup {"updated_at"},
                        !.rows = AddColumn(@, "updated_at", clock)]
              ELSE [mig EXCEPT !.pc = "altered"]
    /\ UNCHANGED <<table, clock, req, walk, wire, columns>>

\* if a column was missing: SELECT id FROM participants ORDER BY id;
\* base_time = datetime.utcnow().  Otherwise straight to db.commit().
backfill_select ==
    /\ mig.pc = "altered"
    /\ mig' = IF NeedsBackfill(mig.existing)
              THEN LET ids == OrderById([i \in 1..Cardinality(DOMAIN mig.rows)
                                           |-> mig.rows[i]])
                   IN [mig EXCEPT
                         !.pc = IF Len(ids) = 0 THEN "commit" ELSE "loop",
                         !.participants = [k \in DOMAIN ids |-> ids[k].id],
                         !.base_time = clock, !.i = 0]
              ELSE [mig EXCEPT !.pc = "commit"]
    /\ UNCHANGED <<table, clock, req, walk, wire, columns>>

\* One turn of the loop: the two timedelta(...) expressions, which raise
\* NameError where timedelta is not bound, then UPDATE participants SET
\* created_at, updated_at WHERE id = :id.
backfill_row ==
    /\ mig.pc = "loop"
    /\ mig' = IF ~mig.script
              THEN [mig EXCEPT !.pc = "except"]
              ELSE LET id == mig.participants[mig.i + 1]
                   IN [mig EXCEPT
                         !.rows[id].created_at =
                              created_time(mig.base_time, mig.i),
                         !.rows[id].updated_at =
                              updated_time(mig.base_time, mig.i),
                         !.i = @ + 1,
                         !.pc = IF mig.i + 1 = Len(mig.participants)
                                THEN "commit" ELSE "loop"]
    /\ UNCHANGED <<table, clock, req, walk, wire, columns>>

\* db.commit()
migration_commit ==
    /\ mig.pc = "commit"
    /\ table' = mig.rows
    /\ columns' = mig.cols
    /\ mig' = [mig EXCEPT !.pc = "done", !.outcome = "committed"]
    /\ UNCHANGED <<clock, req, walk, wire>>

\* except Exception: db.rollback()
migration_rollback ==
    /\ mig.pc = "except"
    /\ mig' = [mig EXCEPT !.pc = "done", !.outcome = "rolled back",
                          !.rows = table, !.cols = columns]
    /\ UNCHANGED <<table, clock, req, walk, wire, columns>>

\* finally: db.close()
migration_close ==
    /\ mig.pc = "done"
    /\ mig' = [NoMigration EXCEPT !.runs = mig.runs]
    /\ UNCHANGED <<table, clock, req, walk, wire, columns>>

\* The tables the script can find: n participants created at time 0 with
\* the model's defaults, in a table that has any of the two columns; a
\* column that is not there holds nothing.
MigrateTable(n, cols) ==
    [id \in 1..n |->
       [a \in DOMAIN Participant(id, <<"b">>, Email, Role, 0) |->
          IF a \in TimestampColumns \ cols THEN Null
          ELSE Participant(id, <<"b">>, Email, Role, 0)[a]]]

\* The script runs one minute after the participants were created.
InitMigrate ==
    /\ \E n \in 0..MaxMigrateRows, cols \in SUBSET TimestampColumns :
          /\ table = MigrateTable(n, cols)
          /\ columns = cols
    /\ clock = 1
    /\ req = [s \in Sessions |-> NoRequest]
    /\ walk = NoWalk
    /\ wire = [s \in Sessions |-> NoWire]
    /\ mig = NoMigration

NextMigrate ==
    \/ \E script \in BOOLEAN : add_timestamp_columns(script)
    \/ add_created_at
    \/ add_updated_at
    \/ backfill_select
    \/ backfill_row
    \/ migration_commit
    \/ migration_rollback
    \/ migration_close

SpecMigrate == InitMigrate /\ [][NextMigrate]_vars

(***************************************************************************)
(* Properties                                                              *)
(***************************************************************************)
Max(a, b) == IF a > b THEN a ELSE b

\* name contains search as a case-insensitive substring
ContainsCI(name, search) ==
    \E i \in 0..(Len(name) - Len(search)) :
        SubSeq(LowerStr(name), i + 1, i + Len(search)) = LowerStr(search)

\* The ids of the rows the search filter of the handlers selects.
MatchingIds(t, search) ==
    {id \in DOMAIN t :
        search # <<>> => /\ t[id].name # Null
                         /\ ILike(t[id].name, SearchPattern(search))}

\* A List request with valid arguments has been answered.
ListDone(s) ==
    /\ req[s].pc = "done" /\ req[s].op = "list"
    /\ req[s].limit >= 0 /\ req[s].offset >= 0

CountDone(s) == req[s].pc = "done" /\ req[s].op = "count"

UpdateDone(s) ==
    req[s].pc = "done" /\ req[s].op \in UpdateOps /\ req[s].status = 200

\* C1: a List with a non-empty search returns only records whose name
\* contains the search string as a case-insensitive substring.
C1_ListOnlySubstringMatches ==
    \A s \in Sessions :
        (ListDone(s) /\ req[s].search # <<>>) =>
            \A i \in DOMAIN req[s].body :
                ContainsCI(req[s].body[i].name, req[s].search)

\* C2: the sequence List returns is in strictly ascending order of id, and
\* any repetition of the call with the same arguments against the same
\* table (whatever order the scan delivers the rows in) returns the same
\* sequence.
C2_ListAscendingDeterministic ==
    \A s \in Sessions :
        ListDone(s) =>
            LET body == req[s].body
            IN /\ \A i, j \in DOMAIN body : i < j => body[i].id < body[j].id
               /\ \A sc \in Scans(table) :
                    ListQuery(ScanRows(table, sc), req[s].search,
                              req[s].limit, req[s].offset) = body

C2_Witness ==
    \E s \in Sessions :
        /\ ListDone(s)
        /\ Len(req[s].body) >= 2
        /\ req[s].search # <<>>

\* C3: List returns exactly min(limit, max(0, M - offset)) records, M the
\* number of records matching the search.
C3_ListLength ==
    \A s \in Sessions :
        ListDone(s) =>
            Len(req[s].body) =
                Min(req[s].limit,
                    Max(0, Cardinality(MatchingIds(table, req[s].search))
                             - req[s].offset))

C3_Witness ==
    \E s \in Sessions :
        /\ ListDone(s)
        /\ req[s].offset > 0
        /\ Len(req[s].body) > 0
        /\ Len(req[s].body) < req[s].limit
        /\ Cardinality(MatchingIds(table, req[s].search))
              < Cardinality(DOMAIN table)

\* C4: the pages List(search, limit, 0), List(search, limit, limit), ...
\* are pairwise disjoint in id, and once the offsets have passed the end
\* of the table their union is the set of records matching the search.
C4_PaginationPartitions ==
    /\ \A i, j \in DOMAIN walk.seen : i # j => walk.seen[i] # walk.seen[j]
    /\ WalkFinished =>
         {walk.seen[i] : i \in DOMAIN walk.seen}
            = MatchingIds(table, walk.search)

C4_Witness ==
    /\ WalkFinished
    /\ walk.limit = 1
    /\ walk.search # <<>>
    /\ Len(walk.seen) >= 2
    /\ Len(walk.seen) < Cardinality(DOMAIN table)

\* C5: Count(search) is the number of records List returns for the same
\* search with offset 0 and a limit no smaller than the table.
C5_CountEqualsUnlimitedList ==
    \A s \in Sessions :
        CountDone(s) =>
            \A sc \in Scans(table) :
                req[s].body[1] =
                    Len(ListQuery(ScanRows(table, sc), req[s].search,
                                  Cardinality(DOMAIN table), 0))

C5_Witness ==
    \E s \in Sessions :
        /\ CountDone(s)
        /\ req[s].search # <<>>
        /\ req[s].body[1] > 0
        /\ req[s].body[1] < Cardinality(DOMAIN table)

GetStep(s) == req[s].pc = "idle" /\ req'[s].op = "get"

UpdateLookupStep(s) == req[s].pc = "idle" /\ req'[s].op \in UpdateOps

CommitStep(s) == req[s].pc = "assigned" /\ req'[s].pc = "committed"

\* The fields each update operation names.
NamedBy(op) ==
    CASE op = "media" -> {"mic_on", "camera_on"}
      [] op = "microphone" -> {"mic_on"}
      [] op = "camera" -> {"camera_on"}
      [] op = "status" -> {"online"}
      [] OTHER -> {}

\* C6: Get(id) returns the stored record with that id when there is one,
\* and fails with 404 "Participant not found" exactly when there is none.
C6_GetFoundOrNotFound ==
    [][\A s \in Sessions :
         GetStep(s) =>
            IF req'[s].id \in DOMAIN table
            THEN /\ req'[s].status = 200
                 /\ req'[s].body = <<table[req'[s].id]>>
            ELSE /\ req'[s].status = 404
                 /\ req'[s].detail = "Participant not found"
                 /\ req'[s].body = <<>>]_vars

C6_Witness ==
    \E s, t \in Sessions :
        /\ req[s].pc = "done" /\ req[s].op = "get" /\ req[s].status = 200
        /\ req[s].body[1].mic_on
        /\ req[t].pc = "done" /\ req[t].op = "get" /\ req[t].status = 404

\* C7: an update addressed to an id that is not in the table fails with
\* 404 and leaves the table as it was, whatever happened before.
C7_UpdateMissingNotFound ==
    [][\A s \in Sessions :
         (UpdateLookupStep(s) /\ req'[s].id \notin DOMAIN table) =>
            /\ req'[s].pc = "done"
            /\ req'[s].status = 404
            /\ req'[s].detail = "Participant not found"
            /\ table' = table]_vars

C7_Witness ==
    \E s \in Sessions :
        /\ req[s].pc = "done" /\ req[s].op \in UpdateOps
        /\ req[s].status = 404
        /\ table # SeedTable

\* C8: whenever a field of a record changes, an update addressed to that
\* record is committing and the field is one the operation names or
\* updated_at; no record appears or disappears.
C8_UpdateFrame ==
    [][/\ DOMAIN table' = DOMAIN table
       /\ \A id \in DOMAIN table : \A a \in DOMAIN table[id] :
            table'[id][a] # table[id][a] =>
               \E s \in Sessions :
                  /\ CommitStep(s)
                  /\ req[s].id = id
                  /\ a \in NamedBy(req[s].op) \cup {"updated_at"}]_vars

C8_Witness ==
    \E s \in Sessions :
        /\ UpdateDone(s)
        /\ req[s].op = "microphone"
        /\ "camera_on" \in req[s].raced
        /\ req[s].body[1].camera_on

C10_ReadYourWrites ==
    [][\A t \in Sessions :
         (req[t].pc = "idle" /\ req'[t].op \in {"get", "list"}
            /\ req'[t].status = 200) =>
            \A s \in Sessions \ {t} :
               UpdateDone(s) =>
                  \A f \in NamedBy(req[s].op) \ req[s].superseded :
                     \A i \in DOMAIN req'[t].body :
                        req'[t].body[i].id = req[s].id =>
                           req'[t].body[i][f]
                              = PayloadValue(req[s].payload, f)]_vars


\* C11: every successful update leaves updated_at of the record strictly
\* greater than the value stored immediately before the update committed,
\* also when updates of the same participant run concurrently; updated_at
\* of a record never decreases.
C11_UpdatedAtAdvances ==
    [][/\ \A s \in Sessions :
            CommitStep(s) =>
               table'[req[s].id].updated_at > table[req[s].id].updated_at
       /\ \A id \in DOMAIN table :
            table'[id].updated_at >= table[id].updated_at]_vars

CommitFailStep(s) ==
    req[s].pc = "assigned" /\ req'[s].pc = "done" /\ req'[s].status = 500

\* C13: when the commit of an update raises, the stored record is exactly
\* as it was before the call: the failing commit changes neither the
\* named flags nor updated_at, nor anything else in the table.
C13_FailedCommitLeavesRecord ==
    [][\A s \in Sessions : CommitFailStep(s) => table' = table]_vars

C13_Witness ==
    \E s \in Sessions :
        /\ req[s].pc = "done" /\ req[s].status = 500
        /\ req[s].op = "media"
        /\ \A f \in NamedBy("media") :
              PayloadValue(req[s].payload, f) # table[req[s].id][f]


\* C14: List with a negative limit or a negative offset fails with 422 and
\* returns no records.
C14_NegativePagingRejected ==
    \A s \in Sessions :
        (/\ req[s].pc = "done" /\ req[s].op = "list"
         /\ (req[s].limit < 0 \/ req[s].offset < 0)) =>
            (req[s].status = 422 /\ req[s].body = <<>>)

\* C17: List and Count also match on email and role: a search for a
\* participant's full email returns that participant, a search for a role
\* value returns and counts every participant with that role.
C17_SearchMatchesEmailAndRole ==
    \A s \in Sessions :
        LET hits == {id \in DOMAIN table :
                        \/ table[id].email = req[s].search
                        \/ table[id].role = req[s].search}
        IN /\ (/\ ListDone(s) /\ req[s].offset = 0
               /\ req[s].limit >= Cardinality(DOMAIN table)) =>
                 hits \subseteq {req[s].body[i].id : i \in DOMAIN req[s].body}
           /\ CountDone(s) => req[s].body[1] >= Cardinality(hits)


(***************************************************************************)
(* Creation                                                                *)
(***************************************************************************)
CreateStep(s) == req[s].pc = "idle" /\ req'[s].op = "create"

\* C12: in every reachable state every participant record has
\* created_at <= updated_at, from its creation with the default timestamps
\* on and through every sequence of the four update operations.
C12_CreatedNotAfterUpdated ==
    \A id \in DOMAIN table : table[id].created_at <= table[id].updated_at

\* A created record that an update has since stamped with a later time.
C12_Witness ==
    \E s \in Sessions :
        /\ UpdateDone(s)
        /\ req[s].status = 200
        /\ table[req[s].id].created_at > 0
        /\ table[req[s].id].updated_at > table[req[s].id].created_at

\* C18: List, Count, Get and the update operations leave the set of
\* participant ids as it is: no step deletes a record or changes a
\* record's id, and the records under distinct keys carry distinct ids.
C18_IdsUnchanged ==
    [][/\ DOMAIN table' = DOMAIN table
       /\ \A id \in DOMAIN table : table'[id].id = table[id].id
       /\ \A i, j \in DOMAIN table' :
            table'[i].id = table'[j].id => i = j]_vars

\* An update has been committed and a list has been served; the ids are
\* those of the seeded table.
C18_Witness ==
    /\ table # SeedTable
    /\ DOMAIN table = DOMAIN SeedTable
    /\ \E s \in Sessions : ListDone(s) /\ Len(req[s].body) = 2

C20_IncompleteCreateInsertsNothing ==
    [][\A s \in Sessions :
         CreateStep(s) =>
            \A id \in DOMAIN table' \ DOMAIN table :
                /\ table'[id].name # Null
                /\ table'[id].email # Null
                /\ table'[id].role # Null]_vars


(***************************************************************************)
(* HTTP                                                                    *)
(***************************************************************************)
DispatchStep(s) == wire[s] # NoWire /\ req[s].pc = "idle" /\ req'[s].pc # "idle"

\* The body leaves a required flag out or gives it a value that is not a
\* JSON boolean.
BadBody(op, raw) ==
    \/ DOMAIN raw # Fields(op)
    \/ \E f \in DOMAIN raw : raw[f] \notin {"true", "false"}

\* C15: an update request (microphone, camera, status or media) whose
\* body omits a required flag or gives it a non-boolean value is answered
\* 422 and leaves the table, updated_at included, as it was.
C15_BadBodyRejected ==
    [][\A s \in Sessions :
         (/\ DispatchStep(s)
          /\ wire[s].method = "PATCH"
          /\ BadBody(wire[s].op, wire[s].raw)) =>
            /\ req'[s].pc = "done"
            /\ req'[s].status = 422
            /\ table' = table]_vars

\* C16: the microphone, camera and status operations are accepted under
\* PUT as under PATCH: for an existing id and a valid body the answer to
\* PUT is 200 with the updated participant, the record holding the flag
\* sent.
C16_PutAccepted ==
    \A s \in Sessions :
        (/\ req[s].pc = "done"
         /\ wire[s].method = "PUT"
         /\ wire[s].op \in {"microphone", "camera", "status"}
         /\ wire[s].id \in DOMAIN table
         /\ ~BadBody(wire[s].op, wire[s].raw)) =>
            /\ req[s].status = 200
            /\ \A f \in Fields(wire[s].op) :
                 LET v == PayloadValue(ParsePayload(wire[s].op, wire[s].raw), f)
                 IN /\ req[s].body[1][f] = v
                    /\ table[wire[s].id][f] = v


(***************************************************************************)
(* Idempotence and concurrency of the updates                              *)
(***************************************************************************)
RefreshStep(s) == req[s].pc = "committed" /\ req'[s].pc = "done"

\* The request of s is the same update as the completed one of t and
\* follows it: s read the record after t had committed, and no other
\* update naming a flag of theirs came before, between or after the two.
SameUpdate(s, t) ==
    /\ s # t
    /\ UpdateDone(t)
    /\ req[s].op = req[t].op
    /\ req[s].id = req[t].id
    /\ req[s].payload = req[t].payload
    /\ NamedBy(req[s].op)
          \cap (req[t].raced \cup req[t].superseded \cup req[s].raced) = {}

\* C21: the updates are idempotent on the flags: when an update has been
\* applied and the same update (same operation, id and values) is applied
\* again in succession, the second commit leaves every field of the record but
\* updated_at as the first left it, and an update that has committed
\* answers 200.
C21_UpdateIdempotent ==
    [][\A s \in Sessions :
         /\ \A t \in Sessions :
              (CommitStep(s) /\ SameUpdate(s, t)) =>
                 \A a \in DOMAIN table[req[s].id] \ {"updated_at"} :
                    table'[req[s].id][a] = table[req[s].id][a]
         /\ (RefreshStep(s) /\ req[s].op \in UpdateOps) =>
               req'[s].status = 200]_vars

\* The same update has been applied twice, one after the other, and set
\* a flag.
C21_Witness ==
    \E s, t \in Sessions :
        /\ SameUpdate(s, t)
        /\ UpdateDone(s)
        /\ \E f \in NamedBy(req[s].op) :
              /\ PayloadValue(req[s].payload, f)
              /\ table[req[s].id][f]


\* The request of s is an UpdateMedia whose commit has taken effect and
\* no later commit has named either of its flags.
MediaApplied(s) ==
    /\ req[s].op = "media"
    /\ req[s].pc \in {"committed", "done"}
    /\ req[s].status \in {0, 200}
    /\ req[s].superseded = {}

\* C22: UpdateMedia sets mic_on and camera_on atomically: a Get or List
\* of a concurrent request that shows the record after an UpdateMedia has
\* committed shows both flags as that call supplied them, never only one
\* of them; and after a successful UpdateMedia(id, m, c) with no other
\* concurrent update the record has mic_on = m and camera_on = c.
C22_MediaAtomic ==
    [][/\ \A t \in Sessions :
            (req[t].pc = "idle" /\ req'[t].op \in {"get", "list"}
               /\ req'[t].status = 200) =>
               \A s \in Sessions \ {t} :
                  MediaApplied(s) =>
                     \A i \in DOMAIN req'[t].body :
                        req'[t].body[i].id = req[s].id =>
                           \A f \in {"mic_on", "camera_on"} :
                              req'[t].body[i][f]
                                 = PayloadValue(req[s].payload, f)
       /\ \A s \in Sessions :
            (MediaApplied(s) /\ req[s].raced = {}) =>
               \A f \in {"mic_on", "camera_on"} :
                  table[req[s].id][f] = PayloadValue(req[s].payload, f)]_vars


\* C23: for concurrent updates of the same flag of the same participant
\* the last committed write wins: once every update in progress has
\* completed, the stored flag has the value supplied by the update that
\* committed last among those naming the flag (UpdateMedia names mic_on
\* and camera_on).
C23_LastCommittedWriteWins ==
    (\A t \in Sessions : req[t].op \in UpdateOps => req[t].pc = "done") =>
        \A s \in Sessions :
            UpdateDone(s) =>
                \A f \in NamedBy(req[s].op) \ req[s].superseded :
                    table[req[s].id][f] = PayloadValue(req[s].payload, f)


\* A commit of another request that named a flag of the request of s
\* fell between the read of s and its refresh, or came after.
Contended(s) ==
    NamedBy(req[s].op) \cap (req[s].raced \cup req[s].superseded) # {}

\* Two completed updates of the same existing participant that name
\* different flags, neither stopped by a failure of the database nor
\* crossed by a further update of its own flag.
DisjointUpdates(s, t) ==
    /\ s # t
    /\ req[s].op \in UpdateOps /\ req[t].op \in UpdateOps
    /\ req[s].pc = "done" /\ req[t].pc = "done"
    /\ req[s].id = req[t].id
    /\ req[s].id \in DOMAIN table
    /\ NamedBy(req[s].op) \cap NamedBy(req[t].op) = {}
    /\ req[s].status # 500 /\ req[t].status # 500
    /\ ~Contended(s) /\ ~Contended(t)

\* C24: two concurrent updates of different flags of the same participant
\* both succeed under every interleaving and the stored record reflects
\* both writes: neither overwrites the other's flag with a stale value.
C24_DisjointFlagsBothApplied ==
    \A s, t \in Sessions :
        DisjointUpdates(s, t) =>
            /\ req[s].status = 200
            /\ \A f \in NamedBy(req[s].op) :
                 table[req[s].id][f] = PayloadValue(req[s].payload, f)

\* A microphone and a camera update of one participant overlapped and
\* both have completed.
C24_Witness ==
    \E s, t \in Sessions :
        /\ DisjointUpdates(s, t)
        /\ req[s].raced # {}
        /\ req[s].op = "microphone" /\ req[t].op = "camera"
        /\ PayloadValue(req[s].payload, "mic_on")
        /\ PayloadValue(req[t].payload, "camera_on")


\* Two completed updates of different existing participants, no further
\* update having committed to either participant since its update read it.
UpdatesOfDifferentParticipants(s, t) ==
    /\ UpdateDone(s) /\ UpdateDone(t)
    /\ req[s].id # req[t].id
    /\ req[s].raced \cup req[s].superseded = {}
    /\ req[t].raced \cup req[t].superseded = {}

\* C25: updates of different participants are independent: the commit of
\* an update addressed to one participant changes no field of any other,
\* and when updates of two different participants have both completed,
\* each record is the one its own update returned, with the flags that
\* update supplied, whatever the interleaving was.
C25_ParticipantsIndependent ==
    [][/\ \A s \in Sessions :
            CommitStep(s) =>
               \A id \in DOMAIN table \ {req[s].id} : table'[id] = table[id]
       /\ \A s, t \in Sessions :
            UpdatesOfDifferentParticipants(s, t) =>
               /\ table[req[s].id] = req[s].body[1]
               /\ \A f \in NamedBy(req[s].op) :
                    table[req[s].id][f]
                       = PayloadValue(req[s].payload, f)]_vars

\* Updates of participants 1 and 2 have both completed and each set a
\* flag.
C25_Witness ==
    \E s, t \in Sessions :
        /\ UpdatesOfDifferentParticipants(s, t)
        /\ \E f \in NamedBy(req[s].op) : table[req[s].id][f]
        /\ \E f \in NamedBy(req[t].op) : table[req[t].id][f]
        /\ table[req[s].id].updated_at < table[req[t].id].updated_at


(***************************************************************************)
(* add_timestamp_columns                                                   *)
(***************************************************************************)
\* C26: once a participant record has a created_at value no operation
\* changes it: in a table that has the created_at column, no step of
\* add_timestamp_columns changes the created_at of a record.
C26_CreatedAtNeverChanges ==
    [][\A id \in DOMAIN table :
         "created_at" \in columns =>
            table'[id].created_at = table[id].created_at]_vars

\* C27: after add_timestamp_columns has backfilled the rows, every row
\* has created_at <= updated_at, however many rows the table has.
C27_BackfillOrdersTimestamps ==
    (/\ mig.pc = "done"
     /\ mig.outcome = "committed"
     /\ NeedsBackfill(mig.existing)) =>
        \A id \in DOMAIN table :
            table[id].created_at <= table[id].updated_at

\* C30: add_timestamp_columns is idempotent: a run that finds both
\* created_at and updated_at in the table adds no column and changes no
\* row, so a second run leaves the table as the first left it.
C30_MigrationIdempotent ==
    [][(mig.pc # "idle" /\ mig.existing = TimestampColumns) =>
          (table' = table /\ columns' = columns)]_vars

\* The script has run twice on a table with rows: the first run added a
\* column and backfilled, the second found both columns and committed.
C30_Witness ==
    /\ mig.runs = 2
    /\ mig.pc = "done"
    /\ mig.outcome = "committed"
    /\ mig.existing = TimestampColumns
    /\ DOMAIN table # {}
    /\ \E id \in DOMAIN table : table[id].created_at < 0


(***************************************************************************)
(* Progress                                                                *)
(***************************************************************************)
\* C28: every request eventually completes with a response, success or
\* error, under any interleaving of concurrent requests, the database
\* answering each statement: no request waits forever and concurrent
\* updates do not deadlock.
C28_RequestsComplete ==
    \A s \in Sessions : (req[s].pc # "idle") ~> (req[s].pc = "done")

\* Two updates of one participant overlapped and both have their
\* responses, while nothing is left waiting.
C28_Witness ==
    \E s, t \in Sessions :
        /\ s # t
        /\ UpdateDone(s) /\ UpdateDone(t)
        /\ req[s].id = req[t].id
        /\ req[s].raced # {}

\* C29: every database session opened for a request is closed when the
\* request ends, on every exit path (normal return, NotFound, a failure
\* raised by the query or by the commit): no session stays open.
C29_SessionsClosed ==
    \A s \in Sessions : req[s].open ~> ~req[s].open

\* One request has ended with a failure of the commit and its session is
\* about to be closed; the session of the other, whose update was
\* committed, has been closed.
C29_Witness ==
    \E s, t \in Sessions :
        /\ req[s].pc = "done" /\ req[s].status = 500 /\ req[s].open
        /\ req[t] = NoRequest
        /\ table # SeedTable

====
